---------------------------- MODULE Spec2Model ----------------------------
(***************************************************************************)
(* A model of dbpl.py, the DeaDBeeF binary playlist (DBPL) codec:          *)
(* Playlist.read (decode), Track.pack / Playlist.save (encode) and the     *)
(* Track accessors.                                                        *)
(*                                                                         *)
(* Data representation                                                     *)
(*   bytes   a sequence of integers 0..255                                 *)
(*   str     a sequence of Unicode code points; bytes.decode() and         *)
(*           str.encode() are the UTF-8 conversions                        *)
(*   dict    a sequence of records [k, v] with pairwise distinct keys, in  *)
(*           insertion order (a Python dict keeps insertion order)         *)
(*   value   a dict value is a str or an int (the shadow entries hold      *)
(*           ints): [int |-> BOOLEAN, n |-> the int, s |-> the str]        *)
(*   float   the four bytes of its IEEE-754 single representation          *)
(*   an exception is the string naming it; "ok" is normal completion       *)
(***************************************************************************)
EXTENDS Integers, Sequences, FiniteSets, TLC

VARIABLES inp, data, phase, pl, ld, out, rl, edited, trk

vars == <<inp, data, phase, pl, ld, out, rl, edited, trk>>

-----------------------------------------------------------------------------
(* Bounds of the model *)

\* most tracks in an input file
MaxTracks == 2
\* most entries in one metadata dictionary of an input file
MaxMeta == 2
\* sample values handed to the setters range over -1..MaxSample
MaxSample == 2

(* Program constants *)

\* a decoder name length of this much or more is rejected
MaxDecoderLen == 20
\* a metadata key or value length of this much or more is corrupt
MaxMetaLen == 20000
MAJOR_VERSION == 1
MINOR_VERSION == 2
IS_SUBTRACK == 1

-----------------------------------------------------------------------------
(* struct.pack / struct.unpack, little endian, no padding *)

Min(a, b) == IF a < b THEN a ELSE b

\* F applied to the value of e: e is evaluated once, as an assignment
\* evaluates its right-hand side once
Bind(e, F(_)) == CHOOSE y \in {F(x) : x \in {e}} : TRUE

\* unpack('B', b)
unpack_B(b) == b[1]

\* unpack('H', b)
unpack_H(b) == b[1] + 256 * b[2]

\* unpack('h', b)
unpack_h(b) == IF b[2] >= 128 THEN b[1] + 256 * b[2] - 65536 ELSE b[1] + 256 * b[2]

\* unpack('I', b); the model's inputs keep b[4] below 128 (TLC's integers
\* are 32 bits wide)
unpack_I(b) == b[1] + 256 * b[2] + 65536 * b[3] + 16777216 * b[4]

\* unpack('i', b)
unpack_i(b) ==
  b[1] + 256 * b[2] + 65536 * b[3]
    + 16777216 * (IF b[4] >= 128 THEN b[4] - 256 ELSE b[4])

\* pack('H', v), 0 <= v < 65536
pack_H(v) == <<v % 256, v \div 256>>

\* pack('h', v), -32768 <= v < 32768
pack_h(v) == pack_H((v + 65536) % 65536)

\* pack('I', v), 0 <= v < 2^31 in the model
pack_I(v) == <<v % 256, (v \div 256) % 256, (v \div 65536) % 256, v \div 16777216>>

\* pack('i', v)
pack_i(v) ==
  LET hi == IF v < 0 THEN -((-v + 16777215) \div 16777216) ELSE v \div 16777216
      lo == v - hi * 16777216
  IN  <<lo % 256, (lo \div 256) % 256, lo \div 65536, (hi + 256) % 256>>

\* the float 0 (pack('f', 0)) and the floats that compare equal to 0 and 1
Float0 == <<0, 0, 0, 0>>
FloatNeg0 == <<0, 0, 0, 128>>
Float1 == <<0, 0, 128, 63>>
Float2 == <<0, 0, 0, 64>>
FloatIsZero(f) == f \in {Float0, FloatNeg0}
FloatIsOne(f) == f = Float1

-----------------------------------------------------------------------------
(* bytes.decode() and str.encode(): UTF-8, strict *)

AllAscii(b) == \A i \in 1..Len(b) : b[i] < 128

Utf8Width(c) ==
  IF c < 128 THEN 1
  ELSE IF c \in 194..223 THEN 2
  ELSE IF c \in 224..239 THEN 3
  ELSE IF c \in 240..244 THEN 4
  ELSE 0

RECURSIVE DecodeFrom(_, _, _)
DecodeFrom(b, i, acc) ==
  IF i > Len(b) THEN [ok |-> TRUE, s |-> acc]
  ELSE
    LET c == b[i]
        n == Utf8Width(c)
    IN  IF \/ n = 0
           \/ i + n - 1 > Len(b)
           \/ \E j \in 1..(n - 1) : b[i + j] \notin 128..191
           \/ c = 224 /\ b[i + 1] < 160
           \/ c = 237 /\ b[i + 1] > 159
           \/ c = 240 /\ b[i + 1] < 144
           \/ c = 244 /\ b[i + 1] > 143
        THEN [ok |-> FALSE, s |-> <<>>]
        ELSE
          LET cp == CASE n = 1 -> c
                      [] n = 2 -> (c - 192) * 64 + (b[i + 1] - 128)
                      [] n = 3 -> (c - 224) * 4096 + (b[i + 1] - 128) * 64
                                    + (b[i + 2] - 128)
                      [] n = 4 -> (c - 240) * 262144 + (b[i + 1] - 128) * 4096
                                    + (b[i + 2] - 128) * 64 + (b[i + 3] - 128)
          IN  DecodeFrom(b, i + n, Append(acc, cp))

\* b.decode(): [ok, s]; not ok is UnicodeDecodeError.  ASCII bytes decode to
\* themselves.
Decode(b) == IF AllAscii(b) THEN [ok |-> TRUE, s |-> b] ELSE DecodeFrom(b, 1, <<>>)

EncodeChar(cp) ==
  IF cp < 128 THEN <<cp>>
  ELSE IF cp < 2048 THEN <<192 + (cp \div 64), 128 + (cp % 64)>>
  ELSE IF cp < 65536
    THEN <<224 + (cp \div 4096), 128 + ((cp \div 64) % 64), 128 + (cp % 64)>>
  ELSE <<240 + (cp \div 262144), 128 + ((cp \div 4096) % 64),
         128 + ((cp \div 64) % 64), 128 + (cp % 64)>>

RECURSIVE EncodeFrom(_, _)
EncodeFrom(s, i) == IF i > Len(s) THEN <<>> ELSE EncodeChar(s[i]) \o EncodeFrom(s, i + 1)

\* s.encode()
Encode(s) == IF AllAscii(s) THEN s ELSE EncodeFrom(s, 1)

-----------------------------------------------------------------------------
(* int(bytes) and str(int) *)

IsDigit(c) == c \in 48..57

RECURSIVE DigitsValue(_, _, _)
DigitsValue(b, i, acc) ==
  IF i > Len(b) THEN acc ELSE DigitsValue(b, i + 1, 10 * acc + (b[i] - 48))

\* int(b): [ok, n]; not ok is ValueError.  A sign, then decimal digits; the
\* model's inputs hold no white space and no underscore, which int() would
\* also take, and at most 9 digits.
ParseInt(b) ==
  LET neg == Len(b) > 0 /\ b[1] = 45
      digits == IF Len(b) > 0 /\ b[1] \in {43, 45} THEN SubSeq(b, 2, Len(b)) ELSE b
  IN  IF Len(digits) = 0 \/ \E i \in 1..Len(digits) : ~IsDigit(digits[i])
      THEN [ok |-> FALSE, n |-> 0]
      ELSE [ok |-> TRUE,
            n |-> IF neg THEN -DigitsValue(digits, 1, 0) ELSE DigitsValue(digits, 1, 0)]

RECURSIVE NatStr(_)
NatStr(n) == IF n < 10 THEN <<48 + n>> ELSE Append(NatStr(n \div 10), 48 + (n % 10))

\* str(n) of an int
IntStr(n) == IF n < 0 THEN <<45>> \o NatStr(-n) ELSE NatStr(n)

-----------------------------------------------------------------------------
(* dict *)

IntVal(n) == [int |-> TRUE, n |-> n, s |-> <<>>]
StrVal(s) == [int |-> FALSE, n |-> 0, s |-> s]

\* str(value)
Str(v) == IF v.int THEN IntStr(v.n) ELSE v.s

\* key in m
DictHas(m, k) == \E i \in 1..Len(m) : m[i].k = k

\* m[key]
DictGet(m, k) == m[CHOOSE i \in 1..Len(m) : m[i].k = k].v

\* m[key] = value: a present key keeps its place
DictSet(m, k, v) ==
  IF DictHas(m, k)
  THEN [i \in 1..Len(m) |-> IF m[i].k = k THEN [k |-> k, v |-> v] ELSE m[i]]
  ELSE Append(m, [k |-> k, v |-> v])

-----------------------------------------------------------------------------
(* class Track *)

\* ':URI', ':STARTSAMPLE', ':ENDSAMPLE' as code points
KeyURI == <<58, 85, 82, 73>>
KeySTARTSAMPLE == <<58, 83, 84, 65, 82, 84, 83, 65, 77, 80, 76, 69>>
KeyENDSAMPLE == <<58, 69, 78, 68, 83, 65, 77, 80, 76, 69>>

\* Track()
NewTrack ==
  [uri |-> <<>>, decoder |-> <<>>, num |-> 0, startsample |-> 0, endsample |-> 0,
   duration |-> Float0, filetype |-> <<>>,
   replaygain_albumgain |-> Float0, replaygain_albumpeak |-> Float0,
   replaygain_trackgain |-> Float0, replaygain_trackpeak |-> Float0,
   flags |-> 0, meta |-> <<>>]

get_uri(t) == IF DictHas(t.meta, KeyURI) THEN Str(DictGet(t.meta, KeyURI)) ELSE t.uri

get_startsample(t) ==
  IF DictHas(t.meta, KeySTARTSAMPLE) THEN DictGet(t.meta, KeySTARTSAMPLE).n
  ELSE t.startsample

\* a setter that writes the shadow entry and leaves the field
set_startsample_meta_only(t, value) ==
  [t EXCEPT !.meta = DictSet(@, KeySTARTSAMPLE, IntVal(value))]

set_startsample(t, value) ==
  [t EXCEPT !.startsample = value,
            !.meta = DictSet(@, KeySTARTSAMPLE, IntVal(value))]

get_endsample(t) ==
  IF DictHas(t.meta, KeyENDSAMPLE) THEN DictGet(t.meta, KeyENDSAMPLE).n
  ELSE t.endsample

set_endsample(t, value) ==
  [t EXCEPT !.endsample = value,
            !.meta = DictSet(@, KeyENDSAMPLE, IntVal(value))]

\* the test of get_writable_meta's loop: a key not starting with '_' or '!'
IsWritableKey(k) == k[1] # 95 /\ k[1] # 33

\* get_writable_meta: [st, meta]; key[0] of an empty key is IndexError
get_writable_meta(t) ==
  IF \E i \in 1..Len(t.meta) : Len(t.meta[i].k) = 0
  THEN [st |-> "IndexError", meta |-> <<>>]
  ELSE [st |-> "ok", meta |-> SelectSeq(t.meta, LAMBDA e : IsWritableKey(e.k))]

\* one pair of Track.pack's loop: the lengths are those of the encoded bytes
pack_track_pair(e) ==
  LET value == Encode(Str(e.v))
      key == Encode(e.k)
  IN  pack_H(Len(key)) \o key \o pack_H(Len(value)) \o value

RECURSIVE pack_track_pairs(_, _)
pack_track_pairs(m, i) ==
  IF i > Len(m) THEN <<>> ELSE pack_track_pair(m[i]) \o pack_track_pairs(m, i + 1)

\* what pack() and append() accept: outside it they raise
pack_in_range(t, meta) ==
  /\ Len(Encode(get_uri(t))) < 65536
  /\ Len(Encode(t.decoder)) < 256
  /\ Len(Encode(t.filetype)) < 256
  /\ t.num \in -32768..32767
  /\ t.flags >= 0
  /\ Len(meta) < 32768
  /\ \A i \in 1..Len(meta) :
       Len(Encode(meta[i].k)) < 65536 /\ Len(Encode(Str(meta[i].v))) < 65536

\* Track.pack: [st, buf]
Track_pack(t) ==
  LET uri_b == Encode(get_uri(t))
      decoder_b == Encode(t.decoder)
      ft_b == Encode(t.filetype)
      w == get_writable_meta(t)
  IN  IF w.st # "ok" THEN [st |-> w.st, buf |-> <<>>]
      ELSE IF ~pack_in_range(t, w.meta) THEN [st |-> "struct.error", buf |-> <<>>]
      ELSE
        [st |-> "ok",
         buf |-> pack_H(Len(uri_b)) \o uri_b
                 \o (IF Len(t.decoder) > 0 THEN <<Len(decoder_b)>> \o decoder_b ELSE <<0>>)
                 \o pack_h(t.num)
                 \o pack_i(get_startsample(t))
                 \o pack_i(get_endsample(t))
                 \o t.duration
                 \o <<Len(ft_b)>> \o (IF Len(t.filetype) > 0 THEN ft_b ELSE <<>>)
                 \o t.replaygain_albumgain \o t.replaygain_albumpeak
                 \o t.replaygain_trackgain \o t.replaygain_trackpeak
                 \o pack_I(t.flags)
                 \o pack_h(Len(w.meta))
                 \o pack_track_pairs(w.meta, 1)]

-----------------------------------------------------------------------------
(* Playlist.read.  A reader value r is [st, pos, ...]: the exception raised  *)
(* ("ok": none) and the file position.                                      *)

\* f.read(n) at position pos: what is left of the file when it is shorter
f_read(d, pos, n) ==
  IF pos >= Len(d) \/ n <= 0 THEN <<>> ELSE SubSeq(d, pos + 1, Min(pos + n, Len(d)))

Raise(r, exc, pos) == [r EXCEPT !.st = exc, !.pos = pos]

\* the decoder-name test off by one
InvalidDecoderLen_off_by_one(decoder_len) == decoder_len > MaxDecoderLen

\* line 186: the decoder-name length that is rejected
InvalidDecoderLen(decoder_len) == decoder_len >= MaxDecoderLen

\* lines 179-193: uri, decoder, track number (minor version <= 2)
read_track_head(d, minor, r) ==
  IF r.st # "ok" \/ minor > 2 THEN r
  ELSE
    LET b1 == f_read(d, r.pos, 2)
        p1 == r.pos + Len(b1)
    IN  IF Len(b1) < 2 THEN Raise(r, "struct.error", p1)
        ELSE
          LET ub == f_read(d, p1, unpack_H(b1))
              p2 == p1 + Len(ub)
              us == Decode(ub)
              b2 == f_read(d, p2, 1)
              p3 == p2 + Len(b2)
          IN  IF ~us.ok THEN Raise(r, "UnicodeDecodeError", p2)
              ELSE IF Len(b2) < 1 THEN Raise(r, "struct.error", p3)
              ELSE IF InvalidDecoderLen(unpack_B(b2))
                THEN Raise(r, "invalid decoder length", p3)
              ELSE
                LET db == f_read(d, p3, unpack_B(b2))
                    p4 == p3 + Len(db)
                    ds == Decode(db)
                    b3 == f_read(d, p4, 2)
                    p5 == p4 + Len(b3)
                IN  IF ~ds.ok THEN Raise(r, "UnicodeDecodeError", p4)
                    ELSE IF Len(b3) < 2 THEN Raise(r, "struct.error", p5)
                    ELSE [r EXCEPT !.pos = p5,
                                   !.track.uri = us.s,
                                   !.track.decoder = ds.s,
                                   !.track.num = unpack_h(b3)]

\* lines 195-201: start sample, end sample (through the setters), duration
read_track_samples(d, r) ==
  IF r.st # "ok" THEN r
  ELSE
    LET b1 == f_read(d, r.pos, 8)
        p1 == r.pos + Len(b1)
        b2 == f_read(d, p1, 4)
        p2 == p1 + Len(b2)
    IN  IF Len(b1) < 8 THEN Raise(r, "struct.error", p1)
        ELSE IF Len(b2) < 4 THEN Raise(r, "struct.error", p2)
        ELSE
          LET ss == unpack_i(SubSeq(b1, 1, 4))
              es == unpack_i(SubSeq(b1, 5, 8))
              t == set_endsample(set_startsample(r.track, ss), es)
          IN  [r EXCEPT !.pos = p2, !.track = [t EXCEPT !.duration = b2]]

\* lines 203-219: filetype and the four replay-gain floats (minor version <= 2)
read_track_tail(d, minor, r) ==
  IF r.st # "ok" \/ minor > 2 THEN r
  ELSE
    LET b1 == f_read(d, r.pos, 1)
        p1 == r.pos + Len(b1)
    IN  IF Len(b1) < 1 THEN Raise(r, "struct.error", p1)
        ELSE
          LET fb == f_read(d, p1, unpack_B(b1))
              p2 == p1 + Len(fb)
              fs == Decode(fb)
              g == f_read(d, p2, 16)
              p3 == p2 + Len(g)
          IN  IF ~fs.ok THEN Raise(r, "UnicodeDecodeError", p2)
              ELSE IF Len(g) < 16 THEN Raise(r, "struct.error", p3)
              ELSE
                LET ag == SubSeq(g, 1, 4)
                    ap == SubSeq(g, 5, 8)
                    tg == SubSeq(g, 9, 12)
                    tp == SubSeq(g, 13, 16)
                IN  [r EXCEPT
                       !.pos = p3,
                       !.track.filetype = fs.s,
                       !.track.replaygain_albumgain =
                          IF ~FloatIsZero(ag) THEN ag ELSE @,
                       !.track.replaygain_albumpeak =
                          IF ~FloatIsZero(ap) /\ ~FloatIsOne(ap) THEN ap ELSE @,
                       !.track.replaygain_trackgain =
                          IF ~FloatIsZero(tg) THEN tg ELSE @,
                       !.track.replaygain_trackpeak =
                          IF ~FloatIsZero(tp) /\ ~FloatIsOne(tp) THEN tp ELSE @]

\* track.flags |= Flag.IS_SUBTRACK: [st, flags].  Flag is an Enum, not an
\* IntFlag: int | Flag is not implemented by either operand and raises
\* TypeError.
ior_IS_SUBTRACK(flags) == [st |-> "TypeError", flags |-> flags]

\* lines 221-225: flags
read_track_flags(d, minor, r) ==
  IF r.st # "ok" THEN r
  ELSE IF minor >= 2
    THEN LET b == f_read(d, r.pos, 4)
         IN  IF Len(b) < 4 THEN Raise(r, "struct.error", r.pos + Len(b))
             ELSE [r EXCEPT !.pos = r.pos + 4, !.track.flags = unpack_I(b)]
  ELSE IF r.track.startsample > 0 \/ r.track.endsample > 0 \/ r.track.num > 0
    THEN LET f == ior_IS_SUBTRACK(r.track.flags)
         IN  [r EXCEPT !.st = f.st, !.track.flags = f.flags]
  ELSE r

\* lines 232 and 238: the track-scope key or value length that is corrupt
OversizedLen(len) == len >= MaxMetaLen

\* lines 242-250: record one decoded pair of a track: [st, track]
store_track_pair(t, key, value) ==
  IF Len(key) = 0 THEN [st |-> "IndexError", track |-> t]
  ELSE IF key = KeySTARTSAMPLE \/ key = KeyENDSAMPLE
    THEN LET n == ParseInt(value)
         IN  IF ~n.ok THEN [st |-> "invalid literal for int()", track |-> t]
             ELSE [st |-> "ok",
                   track |-> IF key = KeySTARTSAMPLE THEN set_startsample(t, n.n)
                             ELSE set_endsample(t, n.n)]
  ELSE LET v == Decode(value)
       IN  IF ~v.ok THEN [st |-> "UnicodeDecodeError", track |-> t]
           ELSE [st |-> "ok", track |-> [t EXCEPT !.meta = DictSet(@, key, StrVal(v.s))]]

\* lines 230-250: one entry of a track's metadata
read_track_entry(d, r) ==
  LET b1 == f_read(d, r.pos, 2)
      p1 == r.pos + Len(b1)
  IN  IF Len(b1) < 2 THEN Raise(r, "struct.error", p1)
      ELSE IF OversizedLen(unpack_H(b1)) THEN Raise(r, "invalid key length", p1)
      ELSE
        Bind(f_read(d, p1, unpack_H(b1)), LAMBDA kb :
        Bind(Decode(kb), LAMBDA key :
          LET p2 == p1 + Len(kb)
              b2 == f_read(d, p2, 2)
              p3 == p2 + Len(b2)
          IN  IF ~key.ok THEN Raise(r, "UnicodeDecodeError", p2)
              ELSE IF Len(b2) < 2 THEN Raise(r, "struct.error", p3)
              ELSE IF OversizedLen(unpack_H(b2))
                THEN [r EXCEPT !.pos = p3 + unpack_H(b2)]
              ELSE
                Bind(f_read(d, p3, unpack_H(b2)), LAMBDA value :
                Bind(store_track_pair(r.track, key.s, value), LAMBDA s :
                  [r EXCEPT !.st = s.st, !.pos = p3 + Len(value), !.track = s.track]))))

RECURSIVE read_track_entries(_, _, _)
read_track_entries(d, r, n) ==
  IF r.st # "ok" \/ n <= 0 THEN r
  ELSE Bind(read_track_entry(d, r), LAMBDA r1 : read_track_entries(d, r1, n - 1))

\* lines 227-250: the track's metadata, its count an int16
read_track_meta(d, r) ==
  IF r.st # "ok" THEN r
  ELSE LET b == f_read(d, r.pos, 2)
       IN  IF Len(b) < 2 THEN Raise(r, "struct.error", r.pos + Len(b))
           ELSE Bind([r EXCEPT !.pos = r.pos + 2],
                     LAMBDA r1 : read_track_entries(d, r1, unpack_h(b)))

\* lines 177-250: one track record at position pos: [st, pos, track]
read_track(d, minor, pos) ==
  Bind([st |-> "ok", pos |-> pos, track |-> NewTrack], LAMBDA r0 :
  Bind(read_track_head(d, minor, r0), LAMBDA r1 :
  Bind(read_track_samples(d, r1), LAMBDA r2 :
  Bind(read_track_tail(d, minor, r2), LAMBDA r3 :
  Bind(read_track_flags(d, minor, r3), LAMBDA r4 :
    read_track_meta(d, r4))))))

\* lines 176-252: the track loop, add_track included; r is [st, pos, pl]
RECURSIVE read_tracks(_, _, _)
read_tracks(d, r, n) ==
  IF r.st # "ok" \/ n <= 0 THEN r
  ELSE Bind(read_track(d, r.pl.minor_version, r.pos), LAMBDA t :
         Bind([r EXCEPT !.st = t.st, !.pos = t.pos,
                        !.pl.tracks = IF t.st = "ok" THEN Append(@, t.track) ELSE @],
              LAMBDA r1 : read_tracks(d, r1, n - 1)))

\* the key length test of the track scope, which has no negative lengths
InvalidKeyLen_oversized_only(key_len) == key_len >= MaxMetaLen

\* line 262: the playlist-scope key length that is rejected
InvalidKeyLen(key_len) == key_len < 0 \/ key_len >= MaxMetaLen

\* line 269: the playlist-scope value length that is skipped
SkippedValueLen(value_len) == value_len < 0 \/ value_len >= MaxMetaLen

\* f.seek(offset, os.SEEK_CUR): [st, pos]; a position before the start of the
\* file is OSError (EINVAL)
f_seek_cur(pos, offset) ==
  IF pos + offset < 0 THEN [st |-> "OSError", pos |-> pos]
  ELSE [st |-> "ok", pos |-> pos + offset]

\* lines 260-273: one entry of the playlist's metadata
read_playlist_entry(d, r) ==
  LET b1 == f_read(d, r.pos, 2)
      p1 == r.pos + Len(b1)
  IN  IF Len(b1) < 2 THEN Raise(r, "struct.error", p1)
      ELSE IF InvalidKeyLen(unpack_h(b1)) THEN Raise(r, "invalid length", p1)
      ELSE
        Bind(f_read(d, p1, unpack_h(b1)), LAMBDA kb :
        Bind(Decode(kb), LAMBDA key :
          LET p2 == p1 + Len(kb)
              b2 == f_read(d, p2, 2)
              p3 == p2 + Len(b2)
          IN  IF ~key.ok THEN Raise(r, "UnicodeDecodeError", p2)
              ELSE IF Len(b2) < 2 THEN Raise(r, "struct.error", p3)
              ELSE IF SkippedValueLen(unpack_h(b2))
                THEN LET k == f_seek_cur(p3, unpack_h(b2))
                     IN  [r EXCEPT !.st = k.st, !.pos = k.pos]
              ELSE
                Bind(f_read(d, p3, unpack_h(b2)), LAMBDA vb :
                Bind(Decode(vb), LAMBDA value :
                  IF ~value.ok THEN Raise(r, "UnicodeDecodeError", p3 + Len(vb))
                  ELSE [r EXCEPT !.pos = p3 + Len(vb),
                                 !.pl.meta = DictSet(@, key.s, StrVal(value.s))]))))

RECURSIVE read_playlist_entries(_, _, _)
read_playlist_entries(d, r, n) ==
  IF r.st # "ok" \/ n <= 0 THEN r
  ELSE Bind(read_playlist_entry(d, r), LAMBDA r1 : read_playlist_entries(d, r1, n - 1))

\* lines 256-273: the playlist's metadata, its count a uint16
read_playlist_meta(d, r) ==
  IF r.st # "ok" THEN r
  ELSE LET b == f_read(d, r.pos, 2)
       IN  IF Len(b) < 2 THEN Raise(r, "struct.error", r.pos + Len(b))
           ELSE Bind([r EXCEPT !.pos = r.pos + 2],
                     LAMBDA r1 : read_playlist_entries(d, r1, unpack_H(b)))

\* b'DBPL'
MAGIC == <<68, 66, 80, 76>>

\* Playlist.__init__ before read(): lines 145-148
NewPlaylist == [major_version |-> -1, minor_version |-> -1, tracks |-> <<>>, meta |-> <<>>]

\* the version checks with the minor version checked first
check_version_minor_first(major, minor) ==
  IF minor < 1 THEN "invalid minor version"
  ELSE IF major # 1 THEN "invalid major version"
  ELSE "ok"

\* lines 167-171: the version checks, major then minor
check_version(major, minor) ==
  IF major # 1 THEN "invalid major version"
  ELSE IF minor < 1 THEN "invalid minor version"
  ELSE "ok"

\* lines 160-171: magic, major and minor version, checked in this order
read_header(d) ==
  LET r == [st |-> "ok", pos |-> 0, pl |-> NewPlaylist]
      magic == f_read(d, 0, 4)
      v == f_read(d, Len(magic), 2)
      p == Len(magic) + Len(v)
  IN  IF magic # MAGIC THEN Raise(r, "invalid magic value", Len(magic))
      ELSE IF Len(v) < 2 THEN Raise(r, "struct.error", p)
      ELSE
        LET h == [r EXCEPT !.pos = p,
                           !.pl.major_version = v[1],
                           !.pl.minor_version = v[2]]
        IN  Raise(h, check_version(v[1], v[2]), p)

\* lines 173-254: the track count, the tracks, the assertion
read_body(d, r) ==
  IF r.st # "ok" THEN r
  ELSE LET b == f_read(d, r.pos, 4)
       IN  IF Len(b) < 4 THEN Raise(r, "struct.error", r.pos + Len(b))
           ELSE Bind([r EXCEPT !.pos = r.pos + 4], LAMBDA r1 :
                Bind(read_tracks(d, r1, unpack_I(b)), LAMBDA t :
                  IF t.st = "ok" /\ unpack_I(b) # Len(t.pl.tracks)
                  THEN Raise(t, "AssertionError", t.pos)
                  ELSE t))

\* Playlist.read: [st, pos, pl]
read(d) ==
  Bind(read_header(d), LAMBDA r0 :
  Bind(read_body(d, r0), LAMBDA r1 :
    read_playlist_meta(d, r1)))

\* Playlist(file): the object, or none when read() raises
NoPlaylist == [major_version |-> 0, minor_version |-> 0, tracks |-> <<>>, meta |-> <<>>]
Playlist(d) ==
  Bind(read(d), LAMBDA r :
    [st |-> r.st, pos |-> r.pos, pl |-> IF r.st = "ok" THEN r.pl ELSE NoPlaylist])

\* Playlist.add_track
add_track(p, track) == [p EXCEPT !.tracks = Append(@, track)]

-----------------------------------------------------------------------------
(* Playlist.save *)

\* the version that was read, written back
save_version_as_read(p) == <<p.major_version, p.minor_version>>

\* line 281: the version written
save_version(p) == <<MAJOR_VERSION, MINOR_VERSION>>

\* lines 287-297: one pair of the playlist's metadata: the lengths written are
\* len(key) and len(value), numbers of characters, and the bytes written are
\* the encoded strings
save_pair(e) ==
  LET value == Str(e.v)
  IN  pack_H(Len(e.k)) \o (IF Len(e.k) > 0 THEN Encode(e.k) ELSE <<>>)
      \o pack_H(Len(value)) \o (IF Len(value) > 0 THEN Encode(value) ELSE <<>>)

RECURSIVE save_pairs(_, _)
save_pairs(m, i) == IF i > Len(m) THEN <<>> ELSE save_pair(m[i]) \o save_pairs(m, i + 1)

\* lines 283-284: the tracks in order; a track whose pack() raises ends the
\* writing: [st, buf]
RECURSIVE save_tracks(_, _)
save_tracks(ts, i) ==
  IF i > Len(ts) THEN [st |-> "ok", buf |-> <<>>]
  ELSE LET b == Track_pack(ts[i])
           rest == save_tracks(ts, i + 1)
       IN  IF b.st # "ok" THEN b
           ELSE [st |-> rest.st, buf |-> b.buf \o rest.buf]

\* Playlist.save: [st, buf], buf the bytes of the file written ('wb'
\* truncates it; what was written before an exception stays)
save(p) ==
  LET head == MAGIC \o save_version(p) \o pack_I(Len(p.tracks))
      t == save_tracks(p.tracks, 1)
  IN  IF t.st # "ok" THEN [st |-> t.st, buf |-> head \o t.buf]
      ELSE [st |-> "ok",
            buf |-> head \o t.buf \o pack_h(Len(p.meta)) \o save_pairs(p.meta, 1)]

-----------------------------------------------------------------------------
(* Input files.  A file is written from a description inp =                 *)
(* [magic, major, minor, tracks, meta] in the layout Playlist.read takes    *)
(* apart; a metadata entry [klen, key, vlen, val] carries its declared      *)
(* lengths beside its bytes, so that a file can declare a length its bytes  *)
(* do not have.                                                             *)

Fill(n, c) == [i \in 1..n |-> c]

\* an entry whose declared lengths are those of its bytes
Entry(key, val) == [klen |-> Len(key), key |-> key, vlen |-> Len(val), val |-> val]

\* the j-th ordinary entry of a dictionary: 'k<j>' -> 'v<j>'
PlainEntry(j) == Entry(<<107, 48 + j>>, <<118, 48 + j>>)

\* 'é' in UTF-8
EAcute == <<195, 169>>

\* track-scope entries, one per case of lines 230-250
TrackEntryCases ==
  { Entry(KeySTARTSAMPLE, <<55>>),
    Entry(KeyENDSAMPLE, <<45, 57>>),
    Entry(KeySTARTSAMPLE, <<120>>),
    Entry(<<58, 120>>, <<121>>),
    Entry(KeyURI, <<119>>),
    Entry(<<95, 120>>, <<49>>),
    Entry(<<33, 121>>, <<49>>),
    Entry(EAcute, EAcute),
    Entry(<<107>>, <<>>),
    Entry(<<>>, <<118>>),
    Entry(Fill(MaxMetaLen - 1, 97), <<118>>),
    [klen |-> MaxMetaLen, key |-> <<>>, vlen |-> 1, val |-> <<118>>],
    Entry(<<107>>, Fill(MaxMetaLen - 1, 98)),
    Entry(<<107>>, Fill(MaxMetaLen, 98)),
    Entry(<<>>, Fill(MaxMetaLen, 98)) }

\* playlist-scope entries, one per case of lines 260-273
PlaylistEntryCases ==
  { Entry(EAcute, <<99>>),
    Entry(<<107>>, EAcute),
    Entry(<<>>, <<118>>),
    Entry(<<107>>, <<>>),
    Entry(KeySTARTSAMPLE, <<55>>),
    [klen |-> -1, key |-> <<>>, vlen |-> 1, val |-> <<118>>],
    [klen |-> MaxMetaLen, key |-> <<>>, vlen |-> 1, val |-> <<118>>],
    Entry(Fill(MaxMetaLen - 1, 97), <<118>>),
    [klen |-> 1, key |-> <<107>>, vlen |-> -1, val |-> <<>>],
    [klen |-> 1, key |-> <<107>>, vlen |-> -2, val |-> <<>>],
    Entry(<<107>>, Fill(MaxMetaLen, 98)) }

\* the dictionaries of at most MaxMeta entries: ordinary entries, at most one
\* of them replaced by a case
EntryLists(cases) ==
  UNION { {[j \in 1..m |-> PlainEntry(j)]}
            \cup {[j \in 1..m |-> IF j = i THEN c ELSE PlainEntry(j)] :
                    i \in 1..m, c \in cases} : m \in 0..MaxMeta }

\* an ordinary track: uri 'u', no decoder name, album peak 1, track gain 2
BaseTrack ==
  [uri |-> <<117>>, decoder_len |-> 0, decoder |-> <<>>, num |-> 0,
   ss |-> 0, es |-> 0, duration |-> Float1, filetype |-> <<>>,
   ag |-> Float0, ap |-> Float1, tg |-> Float2, tp |-> Float0,
   flags |-> 0, entries |-> <<>>]

TrackCases ==
  { [BaseTrack EXCEPT !.decoder_len = n, !.decoder = Fill(n, 100)] :
      n \in {3, MaxDecoderLen - 1, MaxDecoderLen} }
  \cup { [BaseTrack EXCEPT !.num = 1], [BaseTrack EXCEPT !.ss = 5],
         [BaseTrack EXCEPT !.es = 7], [BaseTrack EXCEPT !.ss = -1],
         [BaseTrack EXCEPT !.flags = 5], [BaseTrack EXCEPT !.flags = 65539],
         [BaseTrack EXCEPT !.filetype = <<102>>, !.ag = FloatNeg0, !.tp = Float2],
         [BaseTrack EXCEPT !.uri = EAcute] }
  \cup { [BaseTrack EXCEPT !.entries = e] : e \in EntryLists(TrackEntryCases) }

\* the track lists of at most MaxTracks tracks: ordinary tracks, at most one
\* of them replaced by a case
TrackLists(cases) ==
  UNION { {[k \in 1..n |-> BaseTrack]}
            \cup {[k \in 1..n |-> IF k = i THEN c ELSE BaseTrack] :
                    i \in 1..n, c \in cases} : n \in 0..MaxTracks }

Inputs ==
  \* headers
  { [magic |-> m, major |-> ma, minor |-> mi,
     tracks |-> [k \in 1..n |-> BaseTrack], meta |-> <<>>] :
      m \in {MAGIC, <<88, 66, 80, 76>>, <<68, 66, 80>>},
      ma \in 0..2, mi \in 0..3, n \in 0..1 }
  \* tracks
  \cup { [magic |-> MAGIC, major |-> 1, minor |-> mi,
          tracks |-> t, meta |-> <<PlainEntry(1)>>] :
           mi \in 1..3, t \in TrackLists(TrackCases) }
  \* playlist metadata
  \cup { [magic |-> MAGIC, major |-> 1, minor |-> 2,
          tracks |-> [k \in 1..n |-> BaseTrack], meta |-> e] :
           n \in 0..1, e \in EntryLists(PlaylistEntryCases) }

\* the bytes of one track-scope entry: uint16 lengths
build_track_entry(e) == pack_H(e.klen) \o e.key \o pack_H(e.vlen) \o e.val

\* the bytes of one playlist-scope entry: int16 lengths
build_playlist_entry(e) == pack_h(e.klen) \o e.key \o pack_h(e.vlen) \o e.val

RECURSIVE build_track_entries(_, _)
build_track_entries(es, i) ==
  IF i > Len(es) THEN <<>>
  ELSE build_track_entry(es[i]) \o build_track_entries(es, i + 1)

RECURSIVE build_playlist_entries(_, _)
build_playlist_entries(es, i) ==
  IF i > Len(es) THEN <<>>
  ELSE build_playlist_entry(es[i]) \o build_playlist_entries(es, i + 1)

\* the bytes of one track record in the layout of the minor version
build_track(t, minor) ==
  (IF minor <= 2
   THEN pack_H(Len(t.uri)) \o t.uri \o <<t.decoder_len>> \o t.decoder \o pack_h(t.num)
   ELSE <<>>)
  \o pack_i(t.ss) \o pack_i(t.es) \o t.duration
  \o (IF minor <= 2
      THEN <<Len(t.filetype)>> \o t.filetype \o t.ag \o t.ap \o t.tg \o t.tp
      ELSE <<>>)
  \o (IF minor >= 2 THEN pack_I(t.flags) ELSE <<>>)
  \o pack_h(Len(t.entries)) \o build_track_entries(t.entries, 1)

RECURSIVE build_tracks(_, _, _)
build_tracks(ts, minor, i) ==
  IF i > Len(ts) THEN <<>>
  ELSE build_track(ts[i], minor) \o build_tracks(ts, minor, i + 1)

\* the bytes of a file
build(i) ==
  i.magic \o <<i.major, i.minor>> \o pack_I(Len(i.tracks))
  \o build_tracks(i.tracks, i.minor, 1)
  \o pack_H(Len(i.meta)) \o build_playlist_entries(i.meta, 1)

-----------------------------------------------------------------------------
(* The program: a file is loaded, the playlist may get a track added, is    *)
(* saved to a second file, and that file is loaded.                         *)
(*   inp, data   the input file's description and its bytes                 *)
(*   phase       where the program is                                       *)
(*   pl          the Playlist object (NoPlaylist before and without one)    *)
(*   ld          [st, pos] of the load: the exception and the position      *)
(*   out         the bytes of the file save wrote                           *)
(*   rl          [st, pos, pl] of the load of that file                     *)
(*   edited      whether the playlist was changed after the load            *)
(*   trk         a Track object of its own (TrackSpec)                      *)

NoLoad == [st |-> "", pos |-> 0, pl |-> NoPlaylist]

Init ==
  /\ inp \in Inputs
  /\ data = build(inp)
  /\ phase = "init"
  /\ pl = NoPlaylist
  /\ ld = [st |-> "", pos |-> 0]
  /\ out = <<>>
  /\ rl = NoLoad
  /\ edited = FALSE
  /\ trk = NewTrack

\* pl = Playlist(file)
Load ==
  /\ phase = "init"
  /\ \E r \in {Playlist(data)} :
       /\ ld' = [st |-> r.st, pos |-> r.pos]
       /\ pl' = r.pl
       /\ phase' = IF r.st = "ok" THEN "loaded" ELSE "failed"
  /\ UNCHANGED <<inp, data, out, rl, edited, trk>>

\* pl.add_track(Track())
AddTrack ==
  /\ phase = "loaded"
  /\ ~edited
  /\ Len(pl.tracks) < MaxTracks
  /\ pl' = add_track(pl, NewTrack)
  /\ edited' = TRUE
  /\ UNCHANGED <<inp, data, phase, ld, out, rl, trk>>

\* pl.save(file2)
Save ==
  /\ phase = "loaded"
  /\ \E s \in {save(pl)} :
       /\ out' = s.buf
       /\ phase' = IF s.st = "ok" THEN "saved" ELSE "savefailed"
  /\ UNCHANGED <<inp, data, pl, ld, rl, edited, trk>>

\* Playlist(file2)
Reload ==
  /\ phase = "saved"
  /\ rl' = Playlist(out)
  /\ phase' = "reloaded"
  /\ UNCHANGED <<inp, data, pl, ld, out, edited, trk>>

Next == Load \/ AddTrack \/ Save \/ Reload

Spec == Init /\ [][Next]_vars

-----------------------------------------------------------------------------
(* A Track object on its own: constructed, then changed by its setters and  *)
(* by the decoding of track-scope metadata pairs, in any order.             *)
(*   trk     the Track                                                      *)
(*   phase   the last operation                                             *)
(*   inp     the last pair decoded, [key, value]                            *)
(*   ld.st   the exception that decoding raised ("ok": none)                *)

SampleValues == -1..MaxSample

DecodedKeys == {KeySTARTSAMPLE, KeyENDSAMPLE, <<58, 120>>}

DecodedValues == {IntStr(v) : v \in SampleValues} \cup {<<120>>}

TrackInit ==
  /\ trk = NewTrack
  /\ phase = "new"
  /\ inp = [key |-> <<>>, value |-> <<>>]
  /\ ld = [st |-> "", pos |-> 0]
  /\ data = <<>>
  /\ pl = NoPlaylist
  /\ out = <<>>
  /\ rl = NoLoad
  /\ edited = FALSE

\* trk.set_startsample(v)
SetStartsample ==
  /\ \E v \in SampleValues : trk' = set_startsample(trk, v)
  /\ phase' = "set_startsample"
  /\ UNCHANGED <<inp, data, pl, ld, out, rl, edited>>

\* trk.set_endsample(v)
SetEndsample ==
  /\ \E v \in SampleValues : trk' = set_endsample(trk, v)
  /\ phase' = "set_endsample"
  /\ UNCHANGED <<inp, data, pl, ld, out, rl, edited>>

\* lines 242-250 on trk: a pair read from a file is recorded; when that
\* raises, the track is as it was
DecodePair ==
  /\ \E key \in DecodedKeys, value \in DecodedValues :
       \E s \in {store_track_pair(trk, key, value)} :
         /\ trk' = s.track
         /\ inp' = [key |-> key, value |-> value]
         /\ ld' = [st |-> s.st, pos |-> 0]
  /\ phase' = "decoded"
  /\ UNCHANGED <<data, pl, out, rl, edited>>

TrackNext == SetStartsample \/ SetEndsample \/ DecodePair

TrackSpec == TrackInit /\ [][TrackNext]_vars

-----------------------------------------------------------------------------
(* What a description of an input file promises.  These read the           *)
(* description inp, never the result of the load.                           *)

ValidText(b) == Decode(b).ok

\* the entry's bytes are as long as it declares and its key is text
Honest(e) == e.klen = Len(e.key) /\ e.vlen = Len(e.val) /\ ValidText(e.key)

InRange(len) == len \in 0..(MaxMetaLen - 1)

\* the value is what its key needs: a number for a shadow key, else text
ValueOK(e) ==
  IF e.key \in {KeySTARTSAMPLE, KeyENDSAMPLE} THEN ParseInt(e.val).ok
  ELSE ValidText(e.val)

\* a track-scope entry with both lengths in range (the key may be empty)
TrackEntryInRange(e) == Honest(e) /\ InRange(e.klen) /\ InRange(e.vlen) /\ ValueOK(e)

\* an ordinary track-scope entry: in range, the key not empty
TrackEntryOK(e) == TrackEntryInRange(e) /\ e.klen > 0

\* a track-scope entry whose value is oversized, its bytes all present
TrackEntrySkipped(e) == Honest(e) /\ InRange(e.klen) /\ e.vlen >= MaxMetaLen

\* an ordinary playlist-scope entry
PlaylistEntryOK(e) == Honest(e) /\ InRange(e.klen) /\ InRange(e.vlen) /\ ValidText(e.val)

\* a playlist-scope entry whose value length is oversized, its bytes all
\* present, or negative, with no bytes
PlaylistEntrySkipped(e) ==
  /\ e.klen = Len(e.key) /\ InRange(e.klen) /\ ValidText(e.key)
  /\ \/ e.vlen >= MaxMetaLen /\ e.vlen = Len(e.val)
     \/ e.vlen < 0 /\ e.val = <<>>

HeaderOK(i) == i.magic = MAGIC /\ i.major = 1 /\ i.minor >= 1

\* the fixed fields of a track record are well formed
TrackFieldsOK(t) ==
  /\ t.decoder_len = Len(t.decoder) /\ t.decoder_len < MaxDecoderLen
  /\ ValidText(t.uri) /\ ValidText(t.decoder) /\ ValidText(t.filetype)

\* the track is one a legacy file marks as a subtrack
SubtrackMarked(t) == t.ss > 0 \/ t.es > 0 \/ t.num > 0

\* an ordinary track record of a file of this minor version
TrackOK(t, minor) ==
  /\ TrackFieldsOK(t)
  /\ ~(minor < 2 /\ SubtrackMarked(t))
  /\ \A j \in 1..Len(t.entries) : TrackEntryOK(t.entries[j])

\* no later entry of the dictionary has the key of entry j
LastOfKey(es, j) == \A k \in (j + 1)..Len(es) : es[k].key # es[j].key

\* no other entry of the dictionary has the key of entry j
OnlyOfKey(es, j) == \A k \in 1..Len(es) : k # j => es[k].key # es[j].key

\* the decoded track t holds the pair of entry e
RecordedInTrack(t, e) ==
  IF e.key = KeySTARTSAMPLE
    THEN t.startsample = ParseInt(e.val).n /\ get_startsample(t) = ParseInt(e.val).n
  ELSE IF e.key = KeyENDSAMPLE
    THEN t.endsample = ParseInt(e.val).n /\ get_endsample(t) = ParseInt(e.val).n
  ELSE /\ DictHas(t.meta, Decode(e.key).s)
       /\ DictGet(t.meta, Decode(e.key).s) = StrVal(Decode(e.val).s)

\* the decoded dictionary m holds the pair of entry e
RecordedInPlaylist(m, e) ==
  /\ DictHas(m, Decode(e.key).s)
  /\ DictGet(m, Decode(e.key).s) = StrVal(Decode(e.val).s)

\* the file was loaded, and the playlist is as the load made it
Loaded == phase # "init" /\ ~edited

\* load raised this exception and made no Playlist
FailedWith(exc) == phase = "failed" /\ ld.st = exc /\ pl = NoPlaylist

-----------------------------------------------------------------------------
(* C2 *)

BadMagic == Len(data) < 4 \/ SubSeq(data, 1, 4) # MAGIC

\* C2: a file whose first 4 bytes are not 'DBPL', or whose major version byte
\* is not 1, or whose minor version byte is 0, fails to load with the format
\* error of the first of these checks that fails, in the order magic, major,
\* minor; no Playlist is made and nothing past the 6 header bytes is read.
HeaderValidation ==
  Loaded =>
    /\ BadMagic => FailedWith("invalid magic value") /\ ld.pos <= 4
    /\ ~BadMagic /\ Len(data) >= 6 /\ data[5] # 1 =>
         FailedWith("invalid major version") /\ ld.pos = 6
    /\ ~BadMagic /\ Len(data) >= 6 /\ data[5] = 1 /\ data[6] = 0 =>
         FailedWith("invalid minor version") /\ ld.pos = 6

\* a file with a good magic whose major and minor version are both invalid
\* was refused
HeaderValidationWitness ==
  /\ phase = "failed" /\ ~BadMagic /\ Len(data) > 10
  /\ data[5] = 2 /\ data[6] = 0

-----------------------------------------------------------------------------
(* C3 *)

\* entry j of the playlist's metadata declares a negative or oversized key
\* length, and the file is ordinary up to it
PlaylistKeyCorruptAt(j) ==
  /\ HeaderOK(inp)
  /\ j \in 1..Len(inp.meta)
  /\ inp.meta[j].klen < 0 \/ inp.meta[j].klen >= MaxMetaLen
  /\ \A i \in 1..(j - 1) : PlaylistEntryOK(inp.meta[i])
  /\ \A i \in 1..Len(inp.tracks) : TrackOK(inp.tracks[i], inp.minor)

-----------------------------------------------------------------------------
(* C4 *)

\* C4: in a file of minor version < 2 every track decodes, with flags 1 when
\* its start sample, end sample or track number is positive and flags 0
\* otherwise; in a file of minor version >= 2 the flags are those of the file.
LegacyFlags ==
  /\ Loaded
  /\ HeaderOK(inp)
  /\ \A i \in 1..Len(inp.tracks) :
       /\ TrackFieldsOK(inp.tracks[i])
       /\ \A j \in 1..Len(inp.tracks[i].entries) : TrackEntryOK(inp.tracks[i].entries[j])
  /\ \A j \in 1..Len(inp.meta) : PlaylistEntryOK(inp.meta[j])
  => /\ ld.st = "ok"
     /\ Len(pl.tracks) = Len(inp.tracks)
     /\ \A i \in 1..Len(inp.tracks) :
          pl.tracks[i].flags =
            IF inp.minor >= 2 THEN inp.tracks[i].flags
            ELSE IF SubtrackMarked(inp.tracks[i]) THEN IS_SUBTRACK
            ELSE 0

-----------------------------------------------------------------------------
(* C5 *)

\* C5: a track-scope entry whose declared key length is in 0..19999 (value
\* length below 20000) is accepted and its pair recorded, the empty key
\* included; a declared key length >= 20000 aborts the load with a format
\* error.
TrackKeyLengths ==
  /\ (/\ Loaded
      /\ HeaderOK(inp)
      /\ \A i \in 1..Len(inp.tracks) :
           /\ TrackFieldsOK(inp.tracks[i])
           /\ ~(inp.minor < 2 /\ SubtrackMarked(inp.tracks[i]))
           /\ \A j \in 1..Len(inp.tracks[i].entries) :
                TrackEntryInRange(inp.tracks[i].entries[j])
      /\ \A j \in 1..Len(inp.meta) : PlaylistEntryOK(inp.meta[j]))
     => (/\ ld.st = "ok"
         /\ Len(pl.tracks) = Len(inp.tracks)
         /\ \A i \in 1..Len(inp.tracks) : \A j \in 1..Len(inp.tracks[i].entries) :
              LastOfKey(inp.tracks[i].entries, j) =>
                RecordedInTrack(pl.tracks[i], inp.tracks[i].entries[j]))
  /\ (/\ Loaded
      /\ HeaderOK(inp)
      /\ \E i \in 1..Len(inp.tracks) : \E j \in 1..Len(inp.tracks[i].entries) :
           /\ \A k \in 1..(i - 1) : TrackOK(inp.tracks[k], inp.minor)
           /\ TrackFieldsOK(inp.tracks[i])
           /\ ~(inp.minor < 2 /\ SubtrackMarked(inp.tracks[i]))
           /\ \A k \in 1..(j - 1) : TrackEntryOK(inp.tracks[i].entries[k])
           /\ inp.tracks[i].entries[j].klen >= MaxMetaLen)
     => FailedWith("invalid key length")

-----------------------------------------------------------------------------
(* C6 *)

\* C6: an entry whose declared value length is >= 20000 (at playlist scope
\* also: negative) is dropped without aborting: the load succeeds, the pair
\* is absent, and every other entry, every track and the playlist's metadata
\* are decoded, the file read exactly to its end.
ValueSkip ==
  /\ Loaded /\ HeaderOK(inp)
  /\ \A i \in 1..Len(inp.tracks) :
       /\ TrackFieldsOK(inp.tracks[i])
       /\ ~(inp.minor < 2 /\ SubtrackMarked(inp.tracks[i]))
       /\ \A j \in 1..Len(inp.tracks[i].entries) :
            \/ TrackEntryOK(inp.tracks[i].entries[j])
            \/ TrackEntrySkipped(inp.tracks[i].entries[j])
  /\ \A j \in 1..Len(inp.meta) :
       PlaylistEntryOK(inp.meta[j]) \/ PlaylistEntrySkipped(inp.meta[j])
  => /\ ld.st = "ok"
     /\ ld.pos = Len(data)
     /\ Len(pl.tracks) = Len(inp.tracks)
     /\ \A i \in 1..Len(inp.tracks) : \A j \in 1..Len(inp.tracks[i].entries) :
          LET es == inp.tracks[i].entries
          IN  /\ TrackEntryOK(es[j]) /\ LastOfKey(es, j) =>
                   RecordedInTrack(pl.tracks[i], es[j])
              /\ TrackEntrySkipped(es[j]) /\ OnlyOfKey(es, j) =>
                   ~DictHas(pl.tracks[i].meta, Decode(es[j].key).s)
     /\ \A j \in 1..Len(inp.meta) :
          /\ PlaylistEntryOK(inp.meta[j]) /\ LastOfKey(inp.meta, j) =>
               RecordedInPlaylist(pl.meta, inp.meta[j])
          /\ PlaylistEntrySkipped(inp.meta[j]) /\ OnlyOfKey(inp.meta, j) =>
               ~DictHas(pl.meta, Decode(inp.meta[j].key).s)

-----------------------------------------------------------------------------
(* C7 *)

\* track k of a file of minor version <= 2 declares a decoder-name length of
\* 20 or more, and the file is ordinary up to it
DecoderTooLongAt(k) ==
  /\ HeaderOK(inp) /\ inp.minor <= 2
  /\ k \in 1..Len(inp.tracks)
  /\ inp.tracks[k].decoder_len >= MaxDecoderLen
  /\ ValidText(inp.tracks[k].uri)
  /\ \A i \in 1..(k - 1) : TrackOK(inp.tracks[i], inp.minor)

\* the file is ordinary throughout
FileOK ==
  /\ HeaderOK(inp)
  /\ \A i \in 1..Len(inp.tracks) : TrackOK(inp.tracks[i], inp.minor)
  /\ \A j \in 1..Len(inp.meta) : PlaylistEntryOK(inp.meta[j])

\* C7: in a file of minor version <= 2 a declared decoder-name length of 20 or
\* more, in any track position, fails the whole load with a format error and
\* makes no Playlist; a decoder name of exactly 19 bytes decodes.
DecoderLenBoundary ==
  /\ Loaded /\ (\E k \in 1..Len(inp.tracks) : DecoderTooLongAt(k)) =>
       FailedWith("invalid decoder length")
  /\ Loaded /\ inp.minor <= 2 =>
       \/ /\ ld.st = "ok"
          /\ Len(pl.tracks) = Len(inp.tracks)
          /\ \A i \in 1..Len(inp.tracks) :
               pl.tracks[i].decoder = Decode(inp.tracks[i].decoder).s
       \/ ~FileOK

\* a load was refused at its second track, whose decoder name is declared 20
\* bytes long, after the first track was decoded
DecoderLenBoundaryWitness ==
  /\ phase = "failed" /\ DecoderTooLongAt(2)
  /\ inp.tracks[2].decoder_len = MaxDecoderLen

-----------------------------------------------------------------------------
(* C9 *)

\* the fields Track.pack writes, as the track holds them
PackedFields(t) ==
  [uri |-> get_uri(t), decoder |-> t.decoder, num |-> t.num,
   startsample |-> get_startsample(t), endsample |-> get_endsample(t),
   duration |-> t.duration, filetype |-> t.filetype, flags |-> t.flags]

\* the same fields of a decoded track
DecodedFields(t) ==
  [uri |-> t.uri, decoder |-> t.decoder, num |-> t.num,
   startsample |-> t.startsample, endsample |-> t.endsample,
   duration |-> t.duration, filetype |-> t.filetype, flags |-> t.flags]

\* C9: whatever version was read, the file save writes carries major 1,
\* minor 2 in its header, and its track records are in the minor-2 layout:
\* taken apart as minor-2 records they give every track's uri, decoder name,
\* number, samples, duration, filetype and flags.
UpgradeOnSave ==
  phase \in {"saved", "reloaded"} =>
    /\ SubSeq(out, 1, 6) = MAGIC \o <<1, 2>>
    /\ \E r \in {read_body(out, [st |-> "ok", pos |-> 6,
                                 pl |-> [NewPlaylist EXCEPT !.minor_version = 2]])} :
         /\ r.st = "ok"
         /\ Len(r.pl.tracks) = Len(pl.tracks)
         /\ \A i \in 1..Len(pl.tracks) :
              DecodedFields(r.pl.tracks[i]) = PackedFields(pl.tracks[i])

\* a playlist read from a file of minor version 3, with a track, was saved
UpgradeOnSaveWitness ==
  phase = "saved" /\ pl.minor_version = 3 /\ Len(pl.tracks) > 0 /\ ~edited

-----------------------------------------------------------------------------
(* C1, C10 *)

\* the writable metadata of a track, as a set of pairs
WritableSet(t) ==
  {[k |-> e.k, v |-> Str(e.v)] : e \in {t.meta[i] : i \in 1..Len(t.meta)} \cap
                                        {x \in {t.meta[i] : i \in 1..Len(t.meta)} :
                                           IsWritableKey(x.k)}}

\* C1: a playlist that was loaded and not changed saves without an
\* exception, the saved file carries minor version 2 and loads, and the
\* playlist it gives has the same tracks in the same order, each with the
\* same effective start and end sample, flags and writable metadata.
RoundTrip ==
  /\ ~edited => phase # "savefailed"
  /\ phase = "reloaded" /\ ~edited =>
       /\ out[6] = 2
       /\ rl.st = "ok"
       /\ Len(rl.pl.tracks) = Len(pl.tracks)
       /\ \A i \in 1..Len(pl.tracks) :
            /\ get_startsample(rl.pl.tracks[i]) = get_startsample(pl.tracks[i])
            /\ get_endsample(rl.pl.tracks[i]) = get_endsample(pl.tracks[i])
            /\ rl.pl.tracks[i].flags = pl.tracks[i].flags
            /\ WritableSet(rl.pl.tracks[i]) = WritableSet(pl.tracks[i])

\* C10: a file that save wrote without an exception loads, and the load
\* reads it exactly to its end.
SavedFileLoads ==
  phase = "reloaded" => rl.st = "ok" /\ rl.pos = Len(out)

-----------------------------------------------------------------------------
(* C8 *)

\* a shadow entry that is present holds the value of its field, so the
\* getters return the fields
ShadowMirrors(t) ==
  /\ DictHas(t.meta, KeySTARTSAMPLE) =>
       DictGet(t.meta, KeySTARTSAMPLE) = IntVal(t.startsample)
  /\ DictHas(t.meta, KeyENDSAMPLE) =>
       DictGet(t.meta, KeyENDSAMPLE) = IntVal(t.endsample)
  /\ get_startsample(t) = t.startsample
  /\ get_endsample(t) = t.endsample

\* C8: after any sequence of set_startsample, set_endsample and decoded
\* track-scope pairs on a new Track, a shadow entry ':STARTSAMPLE' or
\* ':ENDSAMPLE' that is present equals its dedicated field, and
\* get_startsample and get_endsample return the fields.
ShadowInvariant == ShadowMirrors(trk)

\* a decoded ':STARTSAMPLE' pair has just set the start sample of a track
\* whose end sample was set before
ShadowInvariantWitness ==
  /\ phase = "decoded" /\ ld.st = "ok" /\ inp.key = KeySTARTSAMPLE
  /\ trk.startsample = MaxSample
  /\ DictHas(trk.meta, KeyENDSAMPLE) /\ trk.endsample = -1

=============================================================================
